---- MODULE Spec2Model ----
(***************************************************************************)
(* IRSA over 5G NR: the successive-interference-cancellation decoder       *)
(* decode_irsa_frame of p07_IRSA_over_NR_parallel.py, with the frame it    *)
(* works on and the cancellation routine remove_replicas.                  *)
(*                                                                         *)
(* Signals are abstracted linearly.  A slot's contents are a function from *)
(* message payloads to the (integer) coefficient with which that payload's *)
(* resource grid is present in the slot: the frame is built by adding each *)
(* UE's grid into its replica slots, and remove_replicas subtracts a       *)
(* unit-magnitude multiple of a grid.  The physical layer (LDPC, QAM, LS   *)
(* channel estimation) is abstracted by its effect: without noise a slot   *)
(* decodes to a payload exactly when that payload's grid is the only one   *)
(* present in it.  This is the operating point of the script, which passes *)
(* the frame through the AWGN channel at Eb/No = 100 dB.                   *)
(*                                                                         *)
(* The module also models the scheduler generate_slot_indices, the frame   *)
(* builder generate_hyper_irsa_frame that calls it, and the sweep driver   *)
(* plot_performance_varying_ues that runs the decoder once per UE count.   *)
(* Each has its own specification; the variables of the components a       *)
(* specification does not run stay at rest.                                *)
(***************************************************************************)
EXTENDS Integers, Sequences, FiniteSets

\* Largest frame size and UE population explored.
MaxSlots == 2
MaxUEs == 3

\* Largest number of times remove_replicas is run for one UE.
MaxRuns == 2

\* "max_replicas": 2 of the IRSA parameters.
max_replicas == 2

\* Message payloads (the bit strings of original_bits_list), and the value
\* standing for decoded bits that equal no UE's payload.
PayloadSeq == <<"m0", "m1", "m2">>
Payloads == {PayloadSeq[k] : k \in 1..Len(PayloadSeq)}
NoBits == "none"

VARIABLES
  num_slots_per_frame,   \* irsa_params['num_slots_per_frame']
  num_ues,               \* irsa_params['num_ues']
  original_bits_list,    \* UE -> payload
  replicas_indices_list, \* UE -> set of slots holding its replicas
  received_frame,        \* slot -> (payload -> coefficient)
  slots_to_decode,       \* list of slots
  undecoded_ues,         \* list of UEs
  new_identified_ues,    \* list of UEs identified in the current pass
  slots_to_ignore,       \* list of slots matched in the current pass
  identified_replicas,   \* UE -> list of replica sets appended on a match
  bits_hat,              \* result of the latest decode_slot call
  processing,            \* slots printed "Processing slot" in the current pass
  it,                    \* position of the list iterator of the for loop
  pass_num,
  identified_ues,        \* returned list of 1-based UE ids
  applied,               \* UE -> number of remove_replicas calls (cancellation runs)
  pc,
  \* generate_slot_indices
  probabilities,         \* replica count -> probability, in units of 1/One
  frame_size,
  num_simulations,
  num_ues_per_frame,
  replica_counts,        \* list: one replica count per UE
  slot_indices_list,     \* list: one list of slot indices per UE
  loop_i,                \* the loop variables i and j of lines 139-140
  loop_j,
  \* generate_hyper_irsa_frame
  irsa_hyper_frame,      \* row -> (UE -> coefficient of the UE's resource grid)
  channel_coeff,         \* UE -> channel coefficient
  sim_index,
  ue_index,
  \* plot_performance_varying_ues
  simulation_params,     \* the "IRSA Parameters" of the configuration
  max_num_ues,
  step,
  sweep_num_ues,         \* the loop variable num_ues of line 558
  identified_ues_list

vars == <<num_slots_per_frame, num_ues, original_bits_list,
          replicas_indices_list, received_frame, slots_to_decode,
          undecoded_ues, new_identified_ues, slots_to_ignore,
          identified_replicas, bits_hat, processing, it, pass_num,
          identified_ues, applied, pc, probabilities, frame_size,
          num_simulations, num_ues_per_frame, replica_counts,
          slot_indices_list, loop_i, loop_j, irsa_hyper_frame, channel_coeff,
          sim_index, ue_index, simulation_params, max_num_ues, step,
          sweep_num_ues, identified_ues_list>>

\* The state of generate_slot_indices.
scheduler == <<probabilities, frame_size, num_simulations, num_ues_per_frame,
               replica_counts, slot_indices_list, loop_i, loop_j>>

\* The state of generate_hyper_irsa_frame, apart from the scheduler's.
builder == <<irsa_hyper_frame, channel_coeff, sim_index, ue_index>>

\* The state of plot_performance_varying_ues, apart from the configuration.
sweep == <<max_num_ues, step, sweep_num_ues, identified_ues_list>>

\* What decode_irsa_frame and remove_replicas never write.
inputs == <<num_slots_per_frame, num_ues, original_bits_list,
            replicas_indices_list, scheduler, builder, sweep,
            simulation_params>>

----------------------------------------------------------------------------
\* Helpers on Python lists, modelled as sequences.

Range(seq) == {seq[k] : k \in 1..Len(seq)}

Min(S) == CHOOSE x \in S : \A y \in S : x <= y

Max(S) == CHOOSE x \in S : \A y \in S : x >= y

\* list(range(n)).  (Faulty variant: range(1, n).)
PyRangeOffByOne(n) == [k \in 1..(n - 1) |-> k]
PyRange(n) == [k \in 1..n |-> k - 1]

\* list.remove(x): drops the first occurrence of x.
ListRemove(seq, x) ==
  LET k == Min({j \in 1..Len(seq) : seq[j] = x})
  IN  [j \in 1..(Len(seq) - 1) |-> IF j < k THEN seq[j] ELSE seq[j + 1]]

----------------------------------------------------------------------------
\* The frame handed to the decoder.

UEs(n) == 0..(n - 1)

Slots(n) == 0..(n - 1)

\* np.random.choice(frame_size, num_replicas, replace=False): a set of
\* distinct slots, at most max_replicas of them.
ReplicaChoices(n_slots) ==
  {S \in SUBSET Slots(n_slots) : Cardinality(S) <= max_replicas}

\* Payloads are only ever compared for equality, so UE i draws its payload
\* among the first i+1 payloads: every pattern of equal and different
\* payloads occurs.
BitsChoices(n_ues) ==
  {b \in [UEs(n_ues) -> Payloads] :
     \A i \in UEs(n_ues) :
        \E k \in 1..Min({i + 1, Len(PayloadSeq)}) : b[i] = PayloadSeq[k]}

\* output_frame = zeros; for each UE: output_frame += frame_ue, where
\* frame_ue holds the UE's grid in each of its replica slots.
OutputFrame(n_slots, n_ues, bits, replicas) ==
  [s \in Slots(n_slots) |->
     [p \in Payloads |->
        Cardinality({u \in UEs(n_ues) : s \in replicas[u] /\ bits[u] = p})]]

----------------------------------------------------------------------------
\* decode_slot: LS channel estimate, equalisation, demapping, LDPC decoding.
\* The set of bit strings the call may return: the payload whose grid is
\* alone in the slot (the LS estimate equalises its coefficient away), and
\* bits that are nobody's payload for an empty slot or a collision.
\* (Faulty variant: a collision decodes to any of the payloads present.)
DecodeSlotCapture(received_rg) ==
  LET present == {p \in Payloads : received_rg[p] # 0}
  IN  IF present = {} THEN {NoBits} ELSE present
decode_slot(received_rg) ==
  LET present == {p \in Payloads : received_rg[p] # 0}
  IN  IF Cardinality(present) = 1 THEN present ELSE {NoBits}

\* The scan "for i in undecoded_ues: if is_match: ... break": the first UE
\* of the list whose payload equals the decoded bits, or -1.  (Faulty
\* variants: a test that accepts any bits, and a scan without the break.)
FirstUndecoded(bits, undecoded, bits_list) ==
  IF undecoded = <<>> THEN -1 ELSE undecoded[1]
LastMatch(bits, undecoded, bits_list) ==
  LET hits == {k \in 1..Len(undecoded) : bits_list[undecoded[k]] = bits}
  IN  IF hits = {} THEN -1 ELSE undecoded[Max(hits)]
FirstMatch(bits, undecoded, bits_list) ==
  LET hits == {k \in 1..Len(undecoded) : bits_list[undecoded[k]] = bits}
  IN  IF hits = {} THEN -1 ELSE undecoded[Min(hits)]

\* The list the matching scan runs over (line 459: undecoded_ues).  (Faulty
\* variant: range(num_ues).)
ScanAllUEs(undecoded, n_ues) == PyRange(n_ues)
ScanList(undecoded, n_ues) == undecoded

\* slots_to_decode.remove(slot_index).  (Faulty variant: no removal.)
KeepSlot(slots, s) == slots
RemoveSlot(slots, s) == ListRemove(slots, s)

\* undecoded_ues.remove(i); the decoder only removes a UE it has just read
\* from the list.  (Faulty variant: no removal.)
KeepUE(ues, i) == ues
RemoveUE(ues, i) == IF i \in Range(ues) THEN ListRemove(ues, i) ELSE ues

\* The test of the while loop.  (Faulty variant: while True.)
WhileAlways(slots) == TRUE
WhileCondition(slots) == slots # <<>>

----------------------------------------------------------------------------
\* remove_replicas.

\* phi_hat = angle(sum(y * conj(grid))), as the factor h_hat_2 = exp(j phi_hat)
\* it yields.  The grid's own coefficient decides the sign when it is not
\* zero; angle(0) = 0 on an all-zero slot; otherwise the cross terms with the
\* other grids decide, and either sign can come out.
PhaseEstimates(y_replica_slot, p) ==
  IF y_replica_slot[p] > 0 THEN {1}
  ELSE IF y_replica_slot[p] < 0 THEN {-1}
  ELSE IF \A q \in Payloads : y_replica_slot[q] = 0 THEN {1}
  ELSE {1, -1}

\* clean_slot = y_replica_slot - grid * h_hat_2.  (Faulty variant: subtract
\* only where the grid is still present.)
CleanSlotIfPresent(y_replica_slot, p, h_hat_2) ==
  IF y_replica_slot[p] = 0 THEN y_replica_slot
  ELSE [y_replica_slot EXCEPT ![p] = @ - h_hat_2]
CleanSlot(y_replica_slot, p, h_hat_2) ==
  [y_replica_slot EXCEPT ![p] = @ - h_hat_2]

\* The positions the loop "for pos in replicas_indices_list[ue]" visits.
\* (Faulty variant: the first replica only.)
FirstPositionOnly(replicas, ue) ==
  IF replicas[ue] = {} THEN {} ELSE {Min(replicas[ue])}
ReplicaPositions(replicas, ue) == replicas[ue]

\* The frames remove_replicas may return (one per outcome of the phase
\* estimates; the positions are distinct, so their order does not matter).
remove_replicas(frame, grid_list, replicas, ue) ==
  LET P == ReplicaPositions(replicas, ue)
      H == {h \in [P -> {1, -1}] :
              \A pos \in P : h[pos] \in PhaseEstimates(frame[pos], grid_list[ue])}
  IN  {[s \in DOMAIN frame |->
          IF s \in P THEN CleanSlot(frame[s], grid_list[ue], h[s])
                     ELSE frame[s]] : h \in H}

\* for ue in new_identified_ues: received_frame = remove_replicas(...)
RECURSIVE RemoveAll(_, _, _, _)
RemoveAll(frame, grid_list, replicas, ues) ==
  IF ues = <<>> THEN {frame}
  ELSE UNION {RemoveAll(f, grid_list, replicas, Tail(ues)) :
                f \in remove_replicas(frame, grid_list, replicas, Head(ues))}

----------------------------------------------------------------------------
\* decode_irsa_frame as a state machine.  pc is the position in the function:
\* "while" at the loop test, "for" inside a pass, "return" after the loop,
\* "done" once the result has been returned.

\* generate_slot_indices has not been called.
SchedulerAtRest ==
  /\ probabilities = <<>>
  /\ frame_size = 0
  /\ num_simulations = 0
  /\ num_ues_per_frame = 0
  /\ replica_counts = <<>>
  /\ slot_indices_list = <<>>
  /\ loop_i = 0
  /\ loop_j = 0

\* generate_hyper_irsa_frame has not been called.
BuilderAtRest ==
  /\ irsa_hyper_frame = <<>>
  /\ channel_coeff = <<>>
  /\ sim_index = 0
  /\ ue_index = 0

\* plot_performance_varying_ues has not been called.
SweepAtRest ==
  /\ max_num_ues = 0
  /\ step = 1
  /\ sweep_num_ues = 0
  /\ identified_ues_list = <<>>

\* simulation_params["IRSA Parameters"] (lines 501-505).  The field num_ues
\* holds None or an integer n, written <<>> and <<n>>.
None == <<>>
IrsaParameters(n_slots, n_ues) ==
  [num_slots_per_frame |-> n_slots, num_ues |-> <<n_ues>>,
   max_replicas |-> max_replicas]

\* The state on entry, after the lists of lines 441-446 have been built.
Entry(n_slots, n_ues, bits, replicas) ==
  /\ SchedulerAtRest
  /\ BuilderAtRest
  /\ SweepAtRest
  /\ simulation_params = IrsaParameters(n_slots, n_ues)
  /\ num_slots_per_frame = n_slots
  /\ num_ues = n_ues
  /\ original_bits_list = bits
  /\ replicas_indices_list = replicas
  /\ received_frame = OutputFrame(n_slots, n_ues, bits, replicas)
  /\ slots_to_decode = PyRange(n_slots)
  /\ undecoded_ues = PyRange(n_ues)
  /\ new_identified_ues = <<>>
  /\ slots_to_ignore = <<>>
  /\ identified_replicas = [i \in UEs(n_ues) |-> <<>>]
  /\ bits_hat = NoBits
  /\ processing = <<>>
  /\ it = 0
  /\ pass_num = 1
  /\ identified_ues = <<>>
  /\ applied = [i \in UEs(n_ues) |-> 0]

Init ==
  \E n_slots \in 0..MaxSlots, n_ues \in 0..MaxUEs :
    \E bits \in BitsChoices(n_ues) :
      \E replicas \in [UEs(n_ues) -> ReplicaChoices(n_slots)] :
        /\ Entry(n_slots, n_ues, bits, replicas)
        /\ pc = "while"

\* while slots_to_decode: start a pass (new lists, a fresh list iterator),
\* or leave the loop.
While ==
  /\ pc = "while"
  /\ IF WhileCondition(slots_to_decode)
     THEN /\ new_identified_ues' = <<>>
          /\ slots_to_ignore' = <<>>
          /\ processing' = <<>>
          /\ it' = 0
          /\ pc' = "for"
     ELSE /\ pc' = "return"
          /\ UNCHANGED <<new_identified_ues, slots_to_ignore, processing, it>>
  /\ UNCHANGED <<inputs, received_frame, slots_to_decode, undecoded_ues,
                 identified_replicas, bits_hat, pass_num, identified_ues,
                 applied>>

\* One iteration of "for slot_index in slots_to_decode": the list iterator
\* yields the element at its position in the list as it is now, and advances.
ForNext ==
  /\ pc = "for"
  /\ it < Len(slots_to_decode)
  /\ LET slot_index == slots_to_decode[it + 1]
     IN  \E b \in decode_slot(received_frame[slot_index]) :
           LET i == FirstMatch(b, ScanList(undecoded_ues, num_ues),
                               original_bits_list)
           IN  /\ bits_hat' = b
               /\ processing' = Append(processing, slot_index)
               /\ it' = it + 1
               /\ IF i # -1
                  THEN /\ new_identified_ues' = Append(new_identified_ues, i)
                       /\ identified_replicas' =
                            [identified_replicas EXCEPT
                               ![i] = Append(@, replicas_indices_list[i])]
                       /\ slots_to_ignore' = Append(slots_to_ignore, slot_index)
                       /\ slots_to_decode' = RemoveSlot(slots_to_decode, slot_index)
                       /\ undecoded_ues' = RemoveUE(undecoded_ues, i)
                  ELSE UNCHANGED <<new_identified_ues, identified_replicas,
                                   slots_to_ignore, slots_to_decode,
                                   undecoded_ues>>
  /\ UNCHANGED <<inputs, received_frame, pass_num, identified_ues, applied, pc>>

\* The for loop is exhausted and the pass identified somebody: cancel the
\* replicas of every newly identified UE and go to the next pass.
ForEndCancel ==
  /\ pc = "for"
  /\ it >= Len(slots_to_decode)
  /\ new_identified_ues # <<>>
  /\ received_frame' \in RemoveAll(received_frame, original_bits_list,
                                   replicas_indices_list, new_identified_ues)
  /\ applied' = [i \in DOMAIN applied |->
                   applied[i] + Cardinality({k \in 1..Len(new_identified_ues) :
                                               new_identified_ues[k] = i})]
  /\ pass_num' = pass_num + 1
  /\ pc' = "while"
  /\ UNCHANGED <<inputs, slots_to_decode, undecoded_ues, new_identified_ues,
                 slots_to_ignore, identified_replicas, bits_hat, processing,
                 it, identified_ues>>

\* The for loop is exhausted and nobody was identified: break.
ForEndBreak ==
  /\ pc = "for"
  /\ it >= Len(slots_to_decode)
  /\ new_identified_ues = <<>>
  /\ pc' = "return"
  /\ UNCHANGED <<inputs, received_frame, slots_to_decode, undecoded_ues,
                 new_identified_ues, slots_to_ignore, identified_replicas,
                 bits_hat, processing, it, pass_num, identified_ues, applied>>

\* identified_ues = [ue+1 for ue in range(num_ues) if ue not in undecoded_ues]
\* (Faulty variant: ue instead of ue+1.)
IdentifiedListZeroBased(n_ues, undecoded) ==
  LET ids == {ue \in UEs(n_ues) : ue \notin Range(undecoded)}
      RECURSIVE Asc(_)
      Asc(S) == IF S = {} THEN <<>>
                ELSE <<Min(S)>> \o Asc(S \ {Min(S)})
  IN  Asc(ids)
IdentifiedList(n_ues, undecoded) ==
  LET ids == {ue \in UEs(n_ues) : ue \notin Range(undecoded)}
      RECURSIVE Asc(_)
      Asc(S) == IF S = {} THEN <<>>
                ELSE <<Min(S) + 1>> \o Asc(S \ {Min(S)})
  IN  Asc(ids)

Return ==
  /\ pc = "return"
  /\ identified_ues' = IdentifiedList(num_ues, undecoded_ues)
  /\ pc' = "done"
  /\ UNCHANGED <<inputs, received_frame, slots_to_decode, undecoded_ues,
                 new_identified_ues, slots_to_ignore, identified_replicas,
                 bits_hat, processing, it, pass_num, applied>>

Next == While \/ ForNext \/ ForEndCancel \/ ForEndBreak \/ Return

Spec == Init /\ [][Next]_vars

\* remove_replicas on its own: it is run for one UE of a frame, up to
\* MaxRuns times in a row.
InitCancel ==
  \E n_slots \in 1..MaxSlots, n_ues \in 1..MaxUEs :
    \E bits \in BitsChoices(n_ues) :
      \E replicas \in [UEs(n_ues) -> ReplicaChoices(n_slots)] :
        /\ Entry(n_slots, n_ues, bits, replicas)
        /\ pc = "cancel"

Cancel(ue) ==
  /\ pc = "cancel"
  /\ applied[ue] < MaxRuns
  /\ \A v \in UEs(num_ues) : v # ue => applied[v] = 0
  /\ received_frame' \in remove_replicas(received_frame, original_bits_list,
                                         replicas_indices_list, ue)
  /\ applied' = [applied EXCEPT ![ue] = @ + 1]
  /\ UNCHANGED <<inputs, slots_to_decode, undecoded_ues, new_identified_ues,
                 slots_to_ignore, identified_replicas, bits_hat, processing,
                 it, pass_num, identified_ues, pc>>

NextCancel == \E ue \in UEs(num_ues) : Cancel(ue)

SpecCancel == InitCancel /\ [][NextCancel]_vars

\* The decoder on frames of four slots with two UEs.
InitScenario ==
  \E bits \in BitsChoices(2) :
    \E replicas \in [UEs(2) -> ReplicaChoices(4)] :
      /\ Entry(4, 2, bits, replicas)
      /\ pc = "while"

SpecScenario == InitScenario /\ [][Next]_vars

----------------------------------------------------------------------------
\* generate_slot_indices as a state machine.  pc is "choice" before line 136,
\* "slots" in the loops of lines 139-143, "sched_done" once the tensor has
\* been returned and "ValueError" when numpy has raised.

\* Largest number of UEs (num_simulations * num_ues_per_frame) scheduled.
MaxDraws == 2

\* Probabilities are multiples of 1/One.
ProbLevels == {0, 1, 2}
One == Max(ProbLevels)

ProbabilityChoices ==
  UNION {[1..len -> ProbLevels] : len \in 1..(max_replicas + 1)}

RECURSIVE Sum(_)
Sum(seq) == IF seq = <<>> THEN 0 ELSE Head(seq) + Sum(Tail(seq))

\* np.random.choice(..., p=probabilities) raises ValueError unless p sums
\* to 1, whatever the number of samples asked for.
\* (Faulty variant: no validation of p.)
SumsUnchecked(p) == TRUE
SumsToOne(p) == Sum(p) = One

\* The values np.random.choice(np.arange(len(p)), p=p) can return.
Support(p) == {k - 1 : k \in {n \in 1..Len(p) : p[n] > 0}}

\* np.arange(a, b)
Arange(a, b) == a..(b - 1)

\* np.random.choice(population, size=size, replace=False): every ordering
\* of every size-element subset.  The caller checks size against the
\* population, as numpy does before sampling.
\* (Faulty variant: replace=True.)
ChoiceWithReplacement(population, size) == [1..size -> population]
ChoiceWithoutReplacement(population, size) ==
  {seq \in [1..size -> population] :
     \A a, b \in 1..size : a # b => seq[a] # seq[b]}

\* The decoder's variables while the scheduler runs.
DecoderAtRest ==
  /\ num_slots_per_frame = 0
  /\ num_ues = 0
  /\ original_bits_list = <<>>
  /\ replicas_indices_list = <<>>
  /\ received_frame = <<>>
  /\ slots_to_decode = <<>>
  /\ undecoded_ues = <<>>
  /\ new_identified_ues = <<>>
  /\ slots_to_ignore = <<>>
  /\ identified_replicas = <<>>
  /\ bits_hat = NoBits
  /\ processing = <<>>
  /\ it = 0
  /\ pass_num = 1
  /\ identified_ues = <<>>
  /\ applied = <<>>

decoder == <<num_slots_per_frame, num_ues, original_bits_list,
             replicas_indices_list, received_frame, slots_to_decode,
             undecoded_ues, new_identified_ues, slots_to_ignore,
             identified_replicas, bits_hat, processing, it, pass_num,
             identified_ues, applied>>

\* The call generate_slot_indices(n_sims, n_ues, n_slots, p).
SchedEntry(n_sims, n_ues, n_slots, p) ==
  /\ num_simulations = n_sims
  /\ num_ues_per_frame = n_ues
  /\ frame_size = n_slots
  /\ probabilities = p
  /\ replica_counts = <<>>
  /\ slot_indices_list = <<>>
  /\ loop_i = 0
  /\ loop_j = 0

InitSched ==
  \E n_sims \in 0..MaxDraws, n_ues \in 0..MaxDraws, n_slots \in 0..MaxSlots :
    \E p \in ProbabilityChoices :
      /\ n_sims * n_ues <= MaxDraws
      /\ SchedEntry(n_sims, n_ues, n_slots, p)
      /\ DecoderAtRest
      /\ BuilderAtRest
      /\ SweepAtRest
      /\ simulation_params = IrsaParameters(0, 0)
      /\ pc = "choice"

\* Line 136: replica_counts = np.random.choice(np.arange(len(probabilities)),
\*                                            size=num_ues, p=probabilities)
SchedChoice ==
  /\ pc = "choice"
  /\ IF SumsToOne(probabilities)
     THEN /\ replica_counts' \in
               [1..(num_simulations * num_ues_per_frame) -> Support(probabilities)]
          /\ pc' = "slots"
     ELSE /\ pc' = "ValueError"
          /\ UNCHANGED replica_counts
  /\ UNCHANGED <<decoder, builder, sweep, simulation_params, probabilities, frame_size, num_simulations,
                 num_ues_per_frame, slot_indices_list, loop_i, loop_j>>

\* Lines 141-143, one iteration of the inner loop.  numpy raises ValueError
\* when the sample is larger than the population.
SchedDraw ==
  /\ pc = "slots"
  /\ loop_i < num_simulations
  /\ loop_j < num_ues_per_frame
  /\ LET num_replicas == replica_counts[loop_i * num_ues_per_frame + loop_j + 1]
         population == Arange(loop_i * frame_size, (loop_i + 1) * frame_size)
     IN  IF num_replicas > Cardinality(population)
         THEN /\ pc' = "ValueError"
              /\ UNCHANGED <<slot_indices_list, loop_i, loop_j>>
         ELSE /\ \E slot_indices \in
                     ChoiceWithoutReplacement(population, num_replicas) :
                   slot_indices_list' = Append(slot_indices_list, slot_indices)
              /\ IF loop_j + 1 < num_ues_per_frame
                 THEN loop_j' = loop_j + 1 /\ loop_i' = loop_i
                 ELSE loop_j' = 0 /\ loop_i' = loop_i + 1
              /\ pc' = pc
  /\ UNCHANGED <<decoder, builder, sweep, simulation_params, probabilities, frame_size, num_simulations,
                 num_ues_per_frame, replica_counts>>

\* Lines 144-147: the loops are exhausted, the list is returned as a tensor.
SchedReturn ==
  /\ pc = "slots"
  /\ loop_i >= num_simulations \/ num_ues_per_frame = 0
  /\ pc' = "sched_done"
  /\ UNCHANGED <<decoder, builder, sweep, simulation_params, scheduler>>

NextSched == SchedChoice \/ SchedDraw \/ SchedReturn

SpecSched == InitSched /\ [][NextSched]_vars

----------------------------------------------------------------------------
\* generate_hyper_irsa_frame as a state machine.  It calls the scheduler
\* (line 271) and then runs the loops of lines 278-311; pc is
\* "frame_loop" in the loops, "frame_raised" when an exception other than
\* the scheduler's has ended the call and "frame_returned" when the function
\* has run to its end.  A UE's resource grid is identified by the UE's index
\* (sim_index * num_ues_per_frame + ue_index), rows by their 0-based index.

\* generate_channel: one unit-magnitude coefficient per UE.
ChannelChoices(n) == [UEs(n) -> {1, -1}]

\* tf.zeros([batch_size, ...])
Zeros(batch_size, n) == [row \in Slots(batch_size) |-> [u \in UEs(n) |-> 0]]

InitFrame ==
  \E n_sims \in 0..MaxDraws, n_ues \in 0..MaxDraws, n_slots \in 0..MaxSlots :
    \E p \in ProbabilityChoices, h \in ChannelChoices(n_sims * n_ues) :
      /\ n_sims * n_ues <= MaxDraws
      /\ SchedEntry(n_sims, n_ues, n_slots, p)
      /\ irsa_hyper_frame = Zeros(n_sims * n_slots, n_sims * n_ues)
      /\ channel_coeff = h
      /\ sim_index = 0
      /\ ue_index = 0
      /\ DecoderAtRest
      /\ SweepAtRest
      /\ simulation_params = IrsaParameters(0, 0)
      /\ pc = "choice"

\* Line 274, after generate_slot_indices has returned.
FrameStart ==
  /\ pc = "sched_done"
  /\ irsa_hyper_frame' = Zeros(num_simulations * frame_size,
                               num_simulations * num_ues_per_frame)
  /\ sim_index' = 0
  /\ ue_index' = 0
  /\ pc' = "frame_loop"
  /\ UNCHANGED <<decoder, scheduler, sweep, simulation_params, channel_coeff>>

\* Lines 286-301, one iteration of the inner loop.  Line 292,
\*   irsa_hyper_frame[sim_index * frame_size + slot_indices_sim[ue_index]]
\*     = resource_grid
\* is an item assignment to the tensor made by tf.zeros; a tensor does not
\* support item assignment, so the statement raises TypeError and the frame
\* keeps its contents.
FrameUE ==
  /\ pc = "frame_loop"
  /\ sim_index < num_simulations
  /\ ue_index < num_ues_per_frame
  /\ pc' = "frame_raised"
  /\ UNCHANGED <<decoder, scheduler, sweep, simulation_params, builder>>

\* Lines 307-311, after the inner loop: generate_irsa_frame_single_simulation
\* and bits_sim are not defined, so evaluating the call raises NameError.
FrameTrialEnd ==
  /\ pc = "frame_loop"
  /\ sim_index < num_simulations
  /\ ue_index >= num_ues_per_frame
  /\ pc' = "frame_raised"
  /\ UNCHANGED <<decoder, scheduler, sweep, simulation_params, builder>>

\* The outer loop is exhausted: the function ends (it has no return
\* statement).
FrameReturn ==
  /\ pc = "frame_loop"
  /\ sim_index >= num_simulations
  /\ pc' = "frame_returned"
  /\ UNCHANGED <<decoder, scheduler, sweep, simulation_params, builder>>

NextFrame ==
  \/ SchedChoice \/ SchedDraw \/ SchedReturn
  \/ FrameStart \/ FrameUE \/ FrameTrialEnd \/ FrameReturn

SpecFrame == InitFrame /\ [][NextFrame]_vars

----------------------------------------------------------------------------
\* plot_performance_varying_ues as a state machine: a "for num_ues in
\* range(1, max_num_ues + 1, step)" loop that runs decode_irsa_frame once per
\* value.  pc is "sweep" at the head of the loop, the decoder's while a trial
\* is decoded, and "plotted" after the loop.

\* Largest max_num_ues and step explored.
MaxSweep == 2

\* simulation_params["IRSA Parameters"]["num_ues"] = num_ues  (line 559)
\* (Faulty variant: the frame size is overwritten as well.)
SetNumUesAndSlots(params, n) ==
  [params EXCEPT !.num_ues = <<n>>, !.num_slots_per_frame = n]
SetNumUes(params, n) == [params EXCEPT !.num_ues = <<n>>]

\* The configuration of lines 532-551: "num_ues": None.
InitSweep ==
  \E n_slots \in 0..MaxSlots, max \in 0..MaxSweep, st \in 1..MaxSweep :
    /\ simulation_params = [IrsaParameters(n_slots, 0) EXCEPT !.num_ues = None]
    /\ max_num_ues = max
    /\ step = st
    /\ sweep_num_ues = 1
    /\ identified_ues_list = <<>>
    /\ DecoderAtRest
    /\ SchedulerAtRest
    /\ BuilderAtRest
    /\ pc = "sweep"

\* Lines 558-561: the next value of the range, the write to the
\* configuration, a new frame, and the entry of decode_irsa_frame, which
\* reads the frame size and the number of UEs from the configuration
\* (lines 436-446).
SweepIter ==
  /\ pc = "sweep"
  /\ sweep_num_ues <= max_num_ues
  /\ simulation_params' = SetNumUes(simulation_params, sweep_num_ues)
  /\ num_slots_per_frame' = simulation_params'.num_slots_per_frame
  /\ num_ues' = simulation_params'.num_ues[1]
  /\ \E bits \in BitsChoices(num_ues') :
       \E replicas \in [UEs(num_ues') -> ReplicaChoices(num_slots_per_frame')] :
         /\ original_bits_list' = bits
         /\ replicas_indices_list' = replicas
         /\ received_frame' = OutputFrame(num_slots_per_frame', num_ues',
                                          bits, replicas)
  /\ slots_to_decode' = PyRange(num_slots_per_frame')
  /\ undecoded_ues' = PyRange(num_ues')
  /\ new_identified_ues' = <<>>
  /\ slots_to_ignore' = <<>>
  /\ identified_replicas' = [i \in UEs(num_ues') |-> <<>>]
  /\ bits_hat' = NoBits
  /\ processing' = <<>>
  /\ it' = 0
  /\ pass_num' = 1
  /\ identified_ues' = <<>>
  /\ applied' = [i \in UEs(num_ues') |-> 0]
  /\ pc' = "while"
  /\ UNCHANGED <<scheduler, builder, sweep>>

\* Line 562: identified_ues_list.append(len(identified_ues)); the range
\* iterator advances by step.
SweepCollect ==
  /\ pc = "done"
  /\ identified_ues_list' = Append(identified_ues_list, Len(identified_ues))
  /\ sweep_num_ues' = sweep_num_ues + step
  /\ pc' = "sweep"
  /\ UNCHANGED <<decoder, scheduler, builder, simulation_params,
                 max_num_ues, step>>

\* Lines 565-572: the range is exhausted, the curve is plotted.
SweepPlot ==
  /\ pc = "sweep"
  /\ sweep_num_ues > max_num_ues
  /\ pc' = "plotted"
  /\ UNCHANGED <<decoder, scheduler, builder, sweep, simulation_params>>

NextSweep ==
  \/ SweepIter \/ SweepCollect \/ SweepPlot
  \/ While \/ ForNext \/ ForEndCancel \/ ForEndBreak \/ Return

SpecSweep == InitSweep /\ [][NextSweep]_vars

----------------------------------------------------------------------------
\* Properties of decode_irsa_frame.

AtEndOfPass == pc = "for" /\ it >= Len(slots_to_decode)

IdentifiedSet == UEs(num_ues) \ Range(undecoded_ues)

\* A measure of the work left: the passes the frame size still allows, then
\* the position inside the current pass.
Rank ==
  LET W == num_slots_per_frame + 4
      B == num_slots_per_frame + 1 - pass_num
  IN  CASE pc = "while"  -> B * W + (W - 1)
        [] pc = "for"    -> B * W + (Len(slots_to_decode) - it) + 2
        [] pc = "return" -> 1
        [] OTHER         -> 0

\* C1: decode_irsa_frame halts on every frame and placement, after at most
\* num_slots_per_frame passes of its while loop: a pass in progress has a
\* number no larger than the frame size, every step strictly lowers a
\* measure that never goes below zero, and the function is never stuck
\* before it has returned.
C1_HaltsWithinFrameSizePasses ==
  /\ [](pc = "for" => pass_num <= num_slots_per_frame)
  /\ [](Rank >= 0)
  /\ [][Rank' < Rank]_vars
  /\ [](pc # "done" => ENABLED Next)

\* A run of as many passes as the frame has slots, each pass identifying a UE.
C1_Witness ==
  /\ pc = "done"
  /\ num_slots_per_frame >= 2
  /\ pass_num = num_slots_per_frame + 1
  /\ slots_to_decode = <<>>

\* C2: the identified set only grows: no UE returns to undecoded_ues, no slot
\* returns to slots_to_decode, a UE credited by a step was still undecoded
\* before it, and no UE is ever matched twice.
C2_IdentificationIsMonotonic ==
  [][ /\ Range(undecoded_ues') \subseteq Range(undecoded_ues)
      /\ Range(slots_to_decode') \subseteq Range(slots_to_decode)
      /\ IdentifiedSet \subseteq IdentifiedSet'
      /\ \A u \in UEs(num_ues) : Len(identified_replicas'[u]) <= 1
      /\ \A u \in UEs(num_ues) :
           Len(identified_replicas'[u]) > Len(identified_replicas[u])
             => u \in Range(undecoded_ues) /\ u \notin Range(undecoded_ues')
    ]_vars

\* A UE is matched in a second or later pass while an earlier pass's UE stays
\* identified.
C2_Witness ==
  /\ pc = "for"
  /\ pass_num >= 2
  /\ new_identified_ues # <<>>
  /\ Cardinality(IdentifiedSet) >= 2

\* C3: at the end of every pass, every slot that was in slots_to_decode when
\* the pass began (the slots still listed and the slots matched in the pass)
\* has been passed to decode_slot in that pass.
C3_EverySlotOfThePassIsDecoded ==
  AtEndOfPass =>
    (Range(slots_to_decode) \cup Range(slots_to_ignore)) \subseteq Range(processing)

\* The end-to-end scenario: UE1 (index 0) in slots 0 and 1, UE2 (index 1)
\* in slot 2, slot 3 empty.
InScenario ==
  /\ num_slots_per_frame = 4
  /\ num_ues = 2
  /\ replicas_indices_list[0] = {0, 1}
  /\ replicas_indices_list[1] = {2}

\* C4 as stated: in the scenario the decoder returns the identified UEs 1 and
\* 2 and an empty list of remaining slots.
C4_ScenarioLeavesNoSlot ==
  (pc = "done" /\ InScenario) =>
    identified_ues = <<1, 2>> /\ slots_to_decode = <<>>

\* C4 amended: in the scenario the decoder returns the identified UEs 1 and 2
\* and the remaining slots 1 and 3 (a slot leaves slots_to_decode only when a
\* UE is matched from it).
C4_ScenarioResult ==
  (pc = "done" /\ InScenario) =>
    identified_ues = <<1, 2>> /\ slots_to_decode = <<1, 3>>

C4_Witness == pc = "done" /\ InScenario /\ pass_num = 2

\* A step that calls decode_slot, and a step that starts a pass.
DecodeStep == pc = "for" /\ it' = it + 1

PassStart == pc = "while" /\ pc' = "for"

\* C5 as stated: once slots_to_decode or undecoded_ues has become empty, no
\* further decode_slot call and no further pass happens.
C5_HaltsWhenEitherListEmpties ==
  [][ (slots_to_decode = <<>> \/ (undecoded_ues = <<>> /\ num_ues > 0))
        => ~DecodeStep /\ ~PassStart ]_vars

\* C5 amended: once slots_to_decode is empty there is no further decode_slot
\* call and no further pass; undecoded_ues is not tested: with it empty the
\* decoder goes on decoding slots, credits nobody, and a pass that has
\* credited nobody ends the loop.
C5_HaltsWhenSlotsEmpty ==
  [][ /\ slots_to_decode = <<>> => ~DecodeStep /\ ~PassStart
      /\ (undecoded_ues = <<>> /\ DecodeStep)
           => new_identified_ues' = new_identified_ues
      /\ (undecoded_ues = <<>> /\ AtEndOfPass /\ new_identified_ues = <<>>)
           => pc' = "return" ]_vars

\* decode_slot has been called in a pass begun after undecoded_ues emptied.
C5_Witness ==
  /\ pc = "for"
  /\ num_ues > 0
  /\ undecoded_ues = <<>>
  /\ new_identified_ues = <<>>
  /\ processing # <<>>

\* Every occupied slot holds two or more UEs, whose payloads all differ.
AllCollided ==
  /\ num_slots_per_frame >= 1
  /\ \A u, v \in UEs(num_ues) :
       u # v => original_bits_list[u] # original_bits_list[v]
  /\ \A s \in Slots(num_slots_per_frame) :
       Cardinality({u \in UEs(num_ues) : s \in replicas_indices_list[u]}) # 1

C7_LowestIdMatchWins ==
  /\ [][ DecodeStep =>
           LET cands == {u \in Range(undecoded_ues) :
                           original_bits_list[u] = bits_hat'}
           IN  IF cands = {}
               THEN /\ new_identified_ues' = new_identified_ues
                    /\ undecoded_ues' = undecoded_ues
               ELSE /\ new_identified_ues' =
                         Append(new_identified_ues, Min(cands))
                    /\ Range(undecoded_ues') =
                         Range(undecoded_ues) \ {Min(cands)} ]_vars
  /\ [](/\ Cardinality(Range(processing)) = Len(processing)
        /\ Cardinality(Range(slots_to_ignore)) = Len(slots_to_ignore)
        /\ Len(slots_to_ignore) = Len(new_identified_ues))

\* The latest step credited a UE while a second undecoded UE had the same
\* payload.
C7_Witness ==
  /\ pc = "for"
  /\ new_identified_ues # <<>>
  /\ processing[Len(processing)] = slots_to_ignore[Len(slots_to_ignore)]
  /\ original_bits_list[new_identified_ues[Len(new_identified_ues)]] = bits_hat
  /\ \E u \in Range(undecoded_ues) : original_bits_list[u] = bits_hat

\* The number of UEs of the list ues that have payload p and a replica in
\* slot s.
Contribution(ues, s, p) ==
  Cardinality({k \in 1..Len(ues) :
                 /\ s \in replicas_indices_list[ues[k]]
                 /\ original_bits_list[ues[k]] = p})

\* C8: the cancellation that ends a pass subtracts, in every slot, one copy
\* of the grid of each newly identified UE that has a replica in that slot,
\* decoded or not, and nothing else; no other step changes the frame.
C8_CancellationCoversReplicaSlots ==
  [][ IF AtEndOfPass /\ new_identified_ues # <<>>
      THEN \A s \in Slots(num_slots_per_frame), p \in Payloads :
             received_frame'[s][p] =
               received_frame[s][p] - Contribution(new_identified_ues, s, p)
      ELSE received_frame' = received_frame ]_vars

\* A UE identified in the pass just ended has been cancelled from a slot
\* that the pass did not decode and that is still to be decoded.
C8_Witness ==
  /\ pc = "while"
  /\ \E u \in Range(new_identified_ues) :
       \E s \in replicas_indices_list[u] :
         /\ s \in Range(slots_to_decode)
         /\ s \notin Range(processing)
         /\ applied[u] = 1
         /\ received_frame[s][original_bits_list[u]] = 0

\* A step that runs remove_replicas for ue again.
Rerun(ue) == applied[ue] >= 1 /\ applied'[ue] = applied[ue] + 1

\* C9 as stated: running remove_replicas again for a UE whose replicas have
\* been cancelled leaves every slot's contents unchanged.
C9_SecondCancellationIsNoOp ==
  [][ \A ue \in UEs(num_ues) : Rerun(ue) => received_frame' = received_frame ]_vars

\* C9 amended: running remove_replicas again for a UE subtracts one more
\* unit-magnitude copy of its grid from each of its replica slots, so the
\* contents of each of them change (a slot cancelled to zero comes to hold
\* the grid with coefficient -1); only the slots outside its replica slots
\* are unchanged.
C9_SecondCancellationSubtractsAgain ==
  [][ \A ue \in UEs(num_ues) :
        Rerun(ue) =>
          \A s \in Slots(num_slots_per_frame) :
            LET p == original_bits_list[ue]
            IN  IF s \in replicas_indices_list[ue]
                THEN /\ received_frame'[s][p] - received_frame[s][p] \in {1, -1}
                     /\ \A q \in Payloads \ {p} :
                          received_frame'[s][q] = received_frame[s][q]
                     /\ (\A q \in Payloads : received_frame[s][q] = 0)
                          => received_frame'[s][p] = -1
                ELSE received_frame'[s] = received_frame[s] ]_vars

\* remove_replicas has been run twice for a UE, and a slot of its that the
\* first run cancelled to zero now holds its grid with coefficient -1.
C9_Witness ==
  /\ pc = "cancel"
  /\ \E ue \in UEs(num_ues) :
       /\ applied[ue] = 2
       /\ \E s \in replicas_indices_list[ue] :
            /\ received_frame[s][original_bits_list[ue]] = -1
            /\ \A q \in Payloads \ {original_bits_list[ue]} :
                 received_frame[s][q] = 0

----------------------------------------------------------------------------
\* Properties of generate_slot_indices (specification SpecSched).

----------------------------------------------------------------------------
\* Properties of generate_hyper_irsa_frame (specification SpecFrame).

\* The UEs having a replica in a row, as scheduled.
UEsInRow(row) ==
  {u \in UEs(Len(slot_indices_list)) : row \in Range(slot_indices_list[u + 1])}

\* The sum, over the UEs having a replica in the row, of the UE's
\* coefficient-scaled grid.
Superposition(row) ==
  [u \in UEs(num_simulations * num_ues_per_frame) |->
     IF u \in UEsInRow(row) THEN channel_coeff[u] ELSE 0]

FrameEnded == pc \in {"frame_raised", "frame_returned"}

\* C13: after frame construction each slot's contents equal the sum, over
\* the UEs having a replica in that slot, of the UE's coefficient-scaled
\* reference block (no UE's contribution is lost), and slots without a
\* replica are zero.
C13_FrameIsTheSuperposition ==
  FrameEnded =>
    \A row \in DOMAIN irsa_hyper_frame :
      irsa_hyper_frame[row] = Superposition(row)

----------------------------------------------------------------------------
\* Properties of plot_performance_varying_ues (specification SpecSweep).

\* C14: the simulation configuration is read-only: no step of any component,
\* the sweep driver included, changes a field of simulation_params.
C14_ConfigurationIsNeverWritten ==
  [][simulation_params' = simulation_params]_vars

\* C14, as the code has it: the only write to the configuration is the
\* driver's, at the head of each iteration of the sweep, and it sets the
\* field num_ues to the value of the loop variable; the other fields never
\* change, and the decoder works with the number of UEs found there.
C14_OnlyTheSweepWritesNumUes ==
  /\ [][/\ simulation_params'.num_slots_per_frame
             = simulation_params.num_slots_per_frame
        /\ simulation_params'.max_replicas = simulation_params.max_replicas
        /\ simulation_params'.num_ues # simulation_params.num_ues =>
             /\ pc = "sweep"
             /\ simulation_params'.num_ues = <<sweep_num_ues>>]_vars
  /\ [](pc \in {"while", "for", "return", "done"} =>
          simulation_params.num_ues = <<num_ues>>)

\* The second trial of a sweep has been decoded, with the configuration's
\* num_ues rewritten from 1 to 2.
C14_Witness ==
  /\ pc = "done"
  /\ Len(identified_ues_list) = 1
  /\ simulation_params.num_ues = <<2>>
  /\ identified_ues # <<>>

----------------------------------------------------------------------------
\* The decoder against a reference peeling decoder (specification Spec).

\* The UEs with a replica in slot s that are not in the set cancelled.
Contributors(s, cancelled) ==
  {u \in UEs(num_ues) : s \in replicas_indices_list[u]} \ cancelled

\* One pass of the reference decoder over every remaining slot: the UEs that
\* are the only contributor left in some remaining slot.
ReferencePass(remaining, identified) ==
  {u \in UEs(num_ues) \ identified :
     \E s \in remaining : Contributors(s, identified) = {u}}

\* The slot each UE of a pass is read from: the lowest remaining slot in
\* which it is alone.
ReferenceSlot(remaining, identified, u) ==
  Min({s \in remaining : Contributors(s, identified) = {u}})

\* The reference decoder: passes until one identifies nobody or no slot
\* remains; the UEs of a pass are cancelled, and their slots dropped, at the
\* end of the pass.
RECURSIVE ReferenceDecoder(_, _)
ReferenceDecoder(remaining, identified) ==
  LET new == ReferencePass(remaining, identified)
  IN  IF remaining = {} \/ new = {} THEN identified
      ELSE ReferenceDecoder(
             remaining \ {ReferenceSlot(remaining, identified, u) : u \in new},
             identified \cup new)

PayloadsDistinct ==
  \A u, v \in UEs(num_ues) :
    u # v => original_bits_list[u] # original_bits_list[v]

\* C15: with pairwise distinct payloads (a slot then decodes to UE u exactly
\* when u is its only un-cancelled contributor), the set of UEs returned by
\* decode_irsa_frame, which removes slots from slots_to_decode while it
\* iterates over it, equals the set returned by the reference peeling
\* decoder, which examines every remaining slot in every pass, for every
\* placement.
C15_SameSetAsReferenceDecoder ==
  pc = "done" /\ PayloadsDistinct =>
    {identified_ues[k] - 1 : k \in 1..Len(identified_ues)}
      = ReferenceDecoder(Slots(num_slots_per_frame), {})

\* The reference decoder reads two UEs in its first pass; decode_irsa_frame
\* skipped the second slot in its first pass, needed a second pass for it,
\* and returned the same two UEs.
C15_Witness ==
  /\ pc = "done"
  /\ PayloadsDistinct
  /\ Cardinality(ReferencePass(Slots(num_slots_per_frame), {})) = 2
  /\ pass_num = 3
  /\ Len(identified_ues) = 2

\* C16: in every reachable state of decode_irsa_frame as many slots have
\* been removed from slots_to_decode as UEs from undecoded_ues, so that on
\* return len(identified_ues) + len(slots_to_decode) = num_slots_per_frame
\* and the identified count is at most min(num_ues, num_slots_per_frame).
C16_OneSlotPerIdentifiedUE ==
  /\ num_slots_per_frame - Len(slots_to_decode) = num_ues - Len(undecoded_ues)
  /\ pc = "done" =>
       /\ Len(identified_ues) + Len(slots_to_decode) = num_slots_per_frame
       /\ Len(identified_ues) <= Min({num_ues, num_slots_per_frame})

\* The decoder returned with a UE identified, a slot left and a UE left.
C16_Witness ==
  /\ pc = "done"
  /\ Len(identified_ues) >= 1
  /\ slots_to_decode # <<>>
  /\ undecoded_ues # <<>>

====
